---- MODULE Spec2Model ----
(***************************************************************************)
(* Model of the buffered writer DataWriter of src/handler.py               *)
(* (lines 287-352): construction, _reset_buffer, _append_buffer,          *)
(* _buf_size, flush and write, driven by a single caller against an       *)
(* opaque sink (handler.write) that either returns or raises.             *)
(*                                                                         *)
(* A Python dict keeps its keys in insertion order, and _buf_size reads    *)
(* the first key, so the buffer is a record [keys, cols]: keys is the      *)
(* ordered list of column names, cols maps each name to its list.          *)
(***************************************************************************)
EXTENDS Integers, Sequences, FiniteSets, TLC

\* ---- bounds -------------------------------------------------------------
MaxCapacity == 2
MaxCalls == 3

\* ---- input domains ------------------------------------------------------
Keys == {"t", "v"}
\* the values are opaque to the writer; two of them tell any two rows apart
Values == {1, 2}
Tables == {"ticks", "trades"}
Range(s) == {s[i] : i \in DOMAIN s}
\* the key lists a subclass may give the buffer: no key, one key, or both in
\* either order
FieldLists == {fs \in UNION {[1..n -> Keys] : n \in 0..2} : Cardinality(Range(fs)) = Len(fs)}
\* one data entry: a dict over any subset of the key names
Records == UNION {[ks -> Values] : ks \in SUBSET Keys}

VARIABLES fields, capacity, table, buffer, records, sinkLog, nFlush, lastOp, outcome, attempts
vars == <<fields, capacity, table, buffer, records, sinkLog, nFlush, lastOp, outcome, attempts>>

\* ---- DataWriter ---------------------------------------------------------
\* the override every concrete writer supplies: one empty list per key
_reset_buffer(fs) ==
  [keys |-> fs, cols |-> [k \in Range(fs) |-> <<>>]]

\* variants of _append_buffer with a plausible slip: no membership test on the
\* key (the key is created), and appending to the first column only
NewKeys(buf, data) == DOMAIN data \ DOMAIN buf.cols
RECURSIVE SetToSeq(_)
SetToSeq(S) == IF S = {} THEN <<>> ELSE LET x == CHOOSE y \in S : TRUE IN <<x>> \o SetToSeq(S \ {x})
append_buffer_nofilter(buf, data) ==
  [keys |-> buf.keys \o SetToSeq(NewKeys(buf, data)),
   cols |-> [k \in DOMAIN buf.cols \cup DOMAIN data |->
      IF k \in DOMAIN data
      THEN (IF k \in DOMAIN buf.cols THEN Append(buf.cols[k], data[k]) ELSE <<data[k]>>)
      ELSE buf.cols[k]]]
append_buffer_first_only(buf, data) ==
  [buf EXCEPT !.cols = [k \in DOMAIN buf.cols |->
      IF k \in DOMAIN data /\ k = buf.keys[1] THEN Append(buf.cols[k], data[k]) ELSE buf.cols[k]]]

_append_buffer(buf, data) ==
  [buf EXCEPT !.cols = [k \in DOMAIN buf.cols |->
      IF k \in DOMAIN data THEN Append(buf.cols[k], data[k]) ELSE buf.cols[k]]]

\* variant of _buf_size: the number of columns instead of the number of rows
buf_size_columns(buf) ==
  Len(buf.keys)

_buf_size(buf) ==
  IF Len(buf.keys) > 0 THEN Len(buf.cols[buf.keys[1]]) ELSE 0

\* variants of flush: the buffer is cleared although the sink raised; the
\* sink's error is swallowed; the guard lets an empty buffer through; the
\* buffer is not cleared after the write
flush_discard(buf, tbl, fs, sinkOk) ==
  IF _buf_size(buf) > 0
  THEN [sink |-> <<[data |-> buf.cols, table |-> tbl, ok |-> sinkOk]>>,
        buffer |-> _reset_buffer(fs),
        outcome |-> IF sinkOk THEN "ok" ELSE "error"]
  ELSE [sink |-> <<>>, buffer |-> buf, outcome |-> "ok"]
flush_swallow(buf, tbl, fs, sinkOk) ==
  IF _buf_size(buf) > 0
  THEN [sink |-> <<[data |-> buf.cols, table |-> tbl, ok |-> sinkOk]>>,
        buffer |-> IF sinkOk THEN _reset_buffer(fs) ELSE buf,
        outcome |-> "ok"]
  ELSE [sink |-> <<>>, buffer |-> buf, outcome |-> "ok"]
flush_always(buf, tbl, fs, sinkOk) ==
  IF _buf_size(buf) >= 0
  THEN [sink |-> <<[data |-> buf.cols, table |-> tbl, ok |-> sinkOk]>>,
        buffer |-> IF sinkOk THEN _reset_buffer(fs) ELSE buf,
        outcome |-> IF sinkOk THEN "ok" ELSE "error"]
  ELSE [sink |-> <<>>, buffer |-> buf, outcome |-> "ok"]
flush_no_reset(buf, tbl, fs, sinkOk) ==
  IF _buf_size(buf) > 0
  THEN [sink |-> <<[data |-> buf.cols, table |-> tbl, ok |-> sinkOk]>>,
        buffer |-> buf,
        outcome |-> IF sinkOk THEN "ok" ELSE "error"]
  ELSE [sink |-> <<>>, buffer |-> buf, outcome |-> "ok"]

\* flush: sinkOk tells whether handler.write returns (TRUE) or raises (FALSE);
\* a raise leaves the method before _reset_buffer runs
flush(buf, tbl, fs, sinkOk) ==
  IF _buf_size(buf) > 0
  THEN [sink |-> <<[data |-> buf.cols, table |-> tbl, ok |-> sinkOk]>>,
        buffer |-> IF sinkOk THEN _reset_buffer(fs) ELSE buf,
        outcome |-> IF sinkOk THEN "ok" ELSE "error"]
  ELSE [sink |-> <<>>, buffer |-> buf, outcome |-> "ok"]

\* variants of write: the fill level is tested before the append; the test
\* is > instead of >=; the flush is left out
write_check_first(buf, tbl, fs, cap, data, sinkOk) ==
  IF _buf_size(buf) >= cap
  THEN LET r == flush(buf, tbl, fs, sinkOk)
       IN  [r EXCEPT !.buffer = IF r.outcome = "ok" THEN _append_buffer(r.buffer, data) ELSE r.buffer]
  ELSE [sink |-> <<>>, buffer |-> _append_buffer(buf, data), outcome |-> "ok"]
write_gt(buf, tbl, fs, cap, data, sinkOk) ==
  LET appended == _append_buffer(buf, data)
  IN  IF _buf_size(appended) > cap
      THEN flush(appended, tbl, fs, sinkOk)
      ELSE [sink |-> <<>>, buffer |-> appended, outcome |-> "ok"]
write_append_only(buf, tbl, fs, cap, data, sinkOk) ==
  [sink |-> <<>>, buffer |-> _append_buffer(buf, data), outcome |-> "ok"]

write(buf, tbl, fs, cap, data, sinkOk) ==
  LET appended == _append_buffer(buf, data)
  IN  IF _buf_size(appended) >= cap
      THEN flush(appended, tbl, fs, sinkOk)
      ELSE [sink |-> <<>>, buffer |-> appended, outcome |-> "ok"]

\* ---- state machine ------------------------------------------------------
Init ==
  /\ fields \in FieldLists
  /\ capacity \in 0..MaxCapacity
  /\ table \in Tables
  /\ buffer = _reset_buffer(fields)
  /\ records = <<>>
  /\ sinkLog = <<>>
  /\ nFlush = 0
  /\ lastOp = "init"
  /\ outcome = "ok"
  /\ attempts = 0

CallWrite ==
  /\ Len(records) + nFlush < MaxCalls
  /\ \E data \in Records, sinkOk \in BOOLEAN :
       LET r == write(buffer, table, fields, capacity, data, sinkOk)
       IN  /\ buffer' = r.buffer
           /\ sinkLog' = sinkLog \o r.sink
           /\ outcome' = r.outcome
           /\ attempts' = Len(r.sink)
           /\ records' = Append(records, data)
  /\ lastOp' = "write"
  /\ UNCHANGED <<fields, capacity, table, nFlush>>

CallFlush ==
  /\ Len(records) + nFlush < MaxCalls
  /\ \E sinkOk \in BOOLEAN :
       LET r == flush(buffer, table, fields, sinkOk)
       IN  /\ buffer' = r.buffer
           /\ sinkLog' = sinkLog \o r.sink
           /\ outcome' = r.outcome
           /\ attempts' = Len(r.sink)
  /\ nFlush' = nFlush + 1
  /\ lastOp' = "flush"
  /\ UNCHANGED <<fields, capacity, table, records>>

Next == CallWrite \/ CallFlush

Spec == Init /\ [][Next]_vars

TypeOK ==
  /\ fields \in FieldLists
  /\ capacity \in 0..MaxCapacity
  /\ buffer.keys = fields
  /\ lastOp \in {"init", "write", "flush"}
  /\ outcome \in {"ok", "error"}

\* ---- vocabulary of the properties ---------------------------------------
Last(s) == s[Len(s)]
IsPrefix(s, t) == Len(s) <= Len(t) /\ \A i \in 1..Len(s) : s[i] = t[i]
\* the record names every key of the buffer
FullRecord(r) == Range(fields) \subseteq DOMAIN r
AllFull == \A i \in DOMAIN records : FullRecord(records[i])
\* every sink write so far returned
NeverFailed == \A i \in DOMAIN sinkLog : sinkLog[i].ok
\* the values of key k over all records passed to write, in call order
Column(k) == [i \in 1..Len(records) |-> records[i][k]]
\* the values of key k over the first n sink writes, in call order
RECURSIVE Sunk(_, _)
Sunk(k, n) == IF n = 0 THEN <<>> ELSE Sunk(k, n - 1) \o sinkLog[n].data[k]
EqualLengths == \A j, k \in DOMAIN buffer.cols : Len(buffer.cols[j]) = Len(buffer.cols[k])
\* the step is a call of write / of flush
WriteStep == Len(records') = Len(records) + 1
FlushStep == nFlush' = nFlush + 1
\* the sink raised during the last call
FailedInCall == \E i \in (Len(sinkLog) - attempts + 1)..Len(sinkLog) : ~sinkLog[i].ok

\* C1 (as stated): after a call in which the sink's write raised, every
\* column of the buffer is empty.
C1_DiscardedOnFailure ==
  outcome = "error" => \A k \in DOMAIN buffer.cols : buffer.cols[k] = <<>>

\* C1 (amended): after a call in which the sink's write raised, the buffer
\* still holds exactly the batch that was offered to the sink, and the next
\* sink write offers those records again, in front of any newer ones.
C1_RetainedOnFailure ==
  [][ /\ (outcome' = "error" =>
            /\ attempts' = 1
            /\ buffer'.cols = Last(sinkLog').data
            /\ _buf_size(buffer') > 0)
      /\ (outcome = "error" /\ attempts' > 0 =>
            \A k \in DOMAIN buffer.cols : IsPrefix(buffer.cols[k], Last(sinkLog').data[k]))
    ]_vars

C1_Witness ==
  /\ Len(sinkLog) = 2
  /\ ~sinkLog[1].ok
  /\ lastOp = "write"
  /\ \A k \in DOMAIN sinkLog[1].data : Len(sinkLog[2].data[k]) = Len(sinkLog[1].data[k]) + 1

\* C2: a call of write or flush in which the sink's write raises makes
\* exactly one sink write attempt and ends in the error outcome; a call ends
\* in the error outcome only then.
C2_FailurePropagates ==
  /\ (FailedInCall => outcome = "error" /\ attempts = 1)
  /\ (outcome = "error" => FailedInCall)

C2_Witness ==
  /\ lastOp = "write"
  /\ outcome = "error"
  /\ attempts = 1
  /\ Len(records) = capacity

\* C3: from construction, with Capacity >= 1, a sink that returns and
\* fully-populated records, Capacity calls of write and nothing else: no
\* sink write before the Capacity-th call, exactly one during it, carrying
\* every column's values in call order for the table of the writer, and
\* the fill level is 0 after it.
C3_Pre == capacity >= 1 /\ nFlush = 0 /\ AllFull /\ NeverFailed
C3_Post ==
  /\ (Len(records) < capacity => sinkLog = <<>>)
  /\ (Len(records) = capacity =>
        /\ sinkLog = <<[data |-> [k \in Range(fields) |-> Column(k)], table |-> table, ok |-> TRUE]>>
        /\ attempts = 1
        /\ _buf_size(buffer) = 0)

\* C3 (as stated): for any buffer, also one without columns.
C3_FlushAtCapacity == C3_Pre => C3_Post

\* C3 (amended): the same for a buffer with at least one column.
C3_FlushAtCapacityWithColumns == (C3_Pre /\ fields # <<>>) => C3_Post

C3_Witness ==
  /\ C3_Pre
  /\ Len(fields) = 2
  /\ capacity = 2
  /\ Len(records) = 2
  /\ Len(sinkLog) = 1

\* C4 (as stated): from construction, after N < Capacity calls of write with
\* any records and no call of flush, there was no sink write and the fill
\* level is N.
C4_Pre == nFlush = 0 /\ Len(records) < capacity
C4_SizeIsCallCount ==
  C4_Pre => (sinkLog = <<>> /\ _buf_size(buffer) = Len(records))

\* C4 (amended): under the same conditions there was no sink write, and the
\* fill level is N when the buffer has a column and every record names the
\* buffer's first column.
C4_SizeIsCallCountOfFirstColumn ==
  C4_Pre =>
    /\ sinkLog = <<>>
    /\ (fields # <<>> /\ (\A i \in DOMAIN records : fields[1] \in DOMAIN records[i])
          => _buf_size(buffer) = Len(records))

C4_Witness ==
  /\ C4_Pre
  /\ Len(fields) = 2
  /\ Len(records) >= 1
  /\ \A i \in DOMAIN records : fields[1] \in DOMAIN records[i]
  /\ \E i \in DOMAIN records : ~FullRecord(records[i])

\* C5 (as stated): after every completed operation all columns of the
\* buffer have the same length, whatever the records.
C5_EqualLengths == EqualLengths

\* C5 (amended): all columns of the buffer have the same length as long as
\* every record passed to write names every column of the buffer.
C5_EqualLengthsFullRecords == AllFull => EqualLengths

C5_Witness ==
  /\ AllFull
  /\ Len(fields) = 2
  /\ lastOp = "write"
  /\ _buf_size(buffer) >= 2

C7_FlushEmptyIsNoOp ==
  [][ (FlushStep /\ _buf_size(buffer) = 0) =>
        /\ sinkLog' = sinkLog
        /\ attempts' = 0
        /\ outcome' = "ok"
        /\ buffer' = buffer
        /\ capacity' = capacity
        /\ table' = table
    ]_vars

C7_Witness ==
  /\ lastOp = "flush"
  /\ attempts = 0
  /\ Len(fields) = 2
  /\ _buf_size(buffer) = 0
  /\ Len(buffer.cols[fields[2]]) > 0

\* C8: the buffer's keys are those of construction after every call; a call
\* of write whose record has a key the buffer does not have ends in error
\* only if the sink raised, and still appends the record's other values.
C8_UnknownKeyDropped ==
  [][ /\ buffer'.keys = fields
      /\ DOMAIN buffer'.cols = Range(fields)
      /\ (WriteStep /\ DOMAIN Last(records') \ Range(fields) # {} =>
            /\ (outcome' = "error" => attempts' = 1 /\ ~Last(sinkLog').ok)
            /\ \A k \in Range(fields) \cap DOMAIN Last(records') :
                 LET appended == Append(buffer.cols[k], Last(records')[k])
                 IN  IF attempts' = 0 \/ ~Last(sinkLog').ok
                     THEN buffer'.cols[k] = appended
                     ELSE Last(sinkLog').data[k] = appended /\ buffer'.cols[k] = <<>>)
    ]_vars

C8_Witness ==
  /\ lastOp = "write"
  /\ outcome = "ok"
  /\ fields = <<"t">>
  /\ DOMAIN Last(records) = {"t", "v"}
  /\ buffer.cols["t"] # <<>>

\* C9: a call of flush that finds a fill level above 0 makes exactly one
\* sink write, of the whole buffer and for the table of the writer, and when
\* that write returns the buffer is reset and the fill level is 0.
C9_FlushWritesOnce ==
  [][ (FlushStep /\ _buf_size(buffer) > 0) =>
        /\ attempts' = 1
        /\ Len(sinkLog') = Len(sinkLog) + 1
        /\ Last(sinkLog').data = buffer.cols
        /\ Last(sinkLog').table = table
        /\ (Last(sinkLog').ok =>
              /\ outcome' = "ok"
              /\ buffer' = _reset_buffer(fields)
              /\ _buf_size(buffer') = 0)
    ]_vars

C9_Witness ==
  /\ lastOp = "flush"
  /\ attempts = 1
  /\ Last(sinkLog).ok
  /\ capacity = 2
  /\ Len(Last(sinkLog).data[fields[1]]) = 1
  /\ _buf_size(buffer) = 0

\* C10: with a sink that never raised, Capacity >= 1 and fully-populated
\* records, for every column the values of all sink writes in call order
\* followed by the column's buffered values are the values passed to write
\* in call order, and every sink write carries between 1 and Capacity rows.
C10_NoLossNoDuplication ==
  (NeverFailed /\ AllFull /\ capacity >= 1) =>
    /\ \A k \in Range(fields) : Sunk(k, Len(sinkLog)) \o buffer.cols[k] = Column(k)
    /\ \A i \in DOMAIN sinkLog :
         /\ DOMAIN sinkLog[i].data # {}
         /\ \A k \in DOMAIN sinkLog[i].data :
              Len(sinkLog[i].data[k]) >= 1 /\ Len(sinkLog[i].data[k]) <= capacity

C10_Witness ==
  /\ NeverFailed
  /\ AllFull
  /\ capacity = 2
  /\ Len(fields) = 2
  /\ nFlush >= 1
  /\ Len(sinkLog) >= 1
  /\ _buf_size(buffer) >= 1
====
